---- MODULE Spec2Model ----
(***************************************************************************)
(* A model of obs-backgroundremoval's inference core:                      *)
(*   - AsyncInferenceQueue (src/src/ort-utils/async-inference-queue.cpp):  *)
(*     one client thread calling start/stop/pushFrame/getLatestMask and    *)
(*     the worker threads it spawns, one step per atomic region;           *)
(*   - createOrtSession (src/src/ort-utils/ort-session-utils.cpp): the     *)
(*     session build with its provider chain and fallback, and             *)
(*     runFilterModelInference, one inference cycle step by step;          *)
(*   - ModelRVM (src/src/models/ModelRVM.h): shape derivation and the      *)
(*     recurrent-state carry of the network descriptor;                    *)
(*   - detectGpu (src/src/ort-utils/gpu-info.cpp): the policy defaults.    *)
(* A cv::Mat is a sequence: <<>> is the empty Mat, <<f>> is pushed frame   *)
(* number f, <<f, c>> is the mask inference call number c computed from    *)
(* frame f.                                                                *)
(***************************************************************************)
EXTENDS Integers, Sequences, FiniteSets, TLC

\* ---------------------------------------------------------------- bounds
MaxStart == 2      \* start() calls (each spawns one worker thread)
MaxPush == 2       \* pushFrame() calls
MaxBuild == 2      \* createOrtSession() calls
MaxCycle == 2      \* runFilterModelInference() calls
MaxDetect == 2     \* detectGpu() calls
MaxMajor == 9      \* largest compute capability major number queried
MaxMinor == 9      \* largest compute capability minor number queried

Threads == 1..MaxStart
EmptyMat == <<>>

VARIABLES
  \* AsyncInferenceQueue fields (async-inference-queue.h:45-64)
  inferenceFunc_,    \* "null" (empty std::function) or "fn"
  bufferingMode_,    \* "DOUBLE" or "TRIPLE"
  workerThread_,     \* <<>> when not joinable, <<t>> for thread t
  running_,
  inputBuffer_,
  inputMutex_,       \* <<"free">>, <<"worker", t>>
  hasNewInput_,
  outputBuffer_,
  outputMutex_,      \* <<"free">>, <<"worker", t>>
  hasOutput_,
  framesProcessed_,
  framesDropped_,
  \* worker threads: position in workerLoop and its locals
  wpc,
  localInput,
  localOutput,
  \* the client thread: position inside start()/stop(), pending start() arguments
  cpc,
  inStart,
  startArgs,
  callerMask,        \* the cv::Mat the consumer passes to getLatestMask
  \* history
  nStart,            \* threads spawned so far
  nPush,             \* pushFrame calls so far
  nInfer,            \* inferenceFunc_ calls so far
  lastOp,            \* the client's last completed call: <<name>>, or
                     \* <<"get_true" or "get_false", the Mat that was passed>>
  lastPushed,        \* the frame given to the last pushFrame
  published,         \* masks published by workers, in order
  delivered,         \* masks returned by getLatestMask calls that returned true
  lastInfer,         \* <<thread, ok>> of the last inference call, or <<>>
  inferred,          \* the Mats passed to inferenceFunc_, in order
  overwritten,       \* the Mats pushFrame overwrote in the input slot while flagged new
  run,               \* what happened since the last start(): calls and steps counted
  \* session builder (filter_data fields and the last build's record)
  tf,                \* filter_data: session, modelFilepath, names, dims, buffers;
                     \* <<>> is unset, <<b>> was written by build number b,
                     \* the session is <<b, provider chain>>
  trtCacheDir,       \* whether the TensorRT cache directory exists on disk
  build,             \* the last createOrtSession call: its inputs, what it did, its result
  nBuild,
  \* the network descriptor and one filter's tensors (filter_data fields)
  model,             \* tf->model: "null", "RVM" or "SINET"
  session,           \* tf->session: <<>> is null, else <<the graph it was built from>>
  inputNames,
  outputNames,
  inputDims,         \* resolved shapes, one sequence of dimensions per tensor
  outputDims,
  inputTensorValues, \* one buffer per tensor: [len, data], data names the contents
  outputTensorValues,
  shapeRc,           \* what createOrtSession returned for the last resolution
  ipc,               \* position inside runFilterModelInference
  outputImage,       \* the local cv::Mat of the running cycle
  output,            \* the caller's output Mat
  inferRc,           \* what the last runFilterModelInference returned
  stepLog,           \* the descriptor steps of the current (or last) cycle, in order
  inferRead,         \* the input buffers as the last runNetworkInference read them
  nResolve,
  nCycle,            \* cycles started since the buffers were allocated
  nCall,             \* runFilterModelInference calls so far
  carried,           \* the calls (by number) in which assignOutputToInput ran, in order
  \* detectGpu
  info,              \* the caller's GpuInfo
  detect,            \* the last detectGpu call: what the runtime answered, what it returned
  nDetect

queueVars == <<inferenceFunc_, bufferingMode_, workerThread_, running_, inputBuffer_,
               inputMutex_, hasNewInput_, outputBuffer_, outputMutex_, hasOutput_,
               framesProcessed_, framesDropped_>>
workerVars == <<wpc, localInput, localOutput>>
clientVars == <<cpc, inStart, startArgs, callerMask>>
histVars == <<nStart, nPush, nInfer, lastOp, lastPushed, published, delivered, lastInfer,
              inferred, overwritten, run>>
sessionVars == <<tf, trtCacheDir, build, nBuild>>
inferVars == <<model, session, inputNames, outputNames, inputDims, outputDims,
               inputTensorValues, outputTensorValues, shapeRc, ipc, outputImage, output,
               inferRc, stepLog, inferRead, nResolve, nCycle, nCall, carried>>
gpuVars == <<info, detect, nDetect>>
vars == <<queueVars, workerVars, clientVars, histVars, sessionVars, inferVars, gpuVars>>

Free == <<"free">>
HeldBy(t) == <<"worker", t>>

\* ------------------------------------------------------------ initial state
NoSession == [session |-> <<>>, modelFilepath |-> <<>>, inputNames |-> <<>>,
              outputNames |-> <<>>, inputDims |-> <<>>, outputDims |-> <<>>,
              tensorBuffers |-> <<>>]
NoBuild == [rc |-> "none", attempts |-> <<>>, configured |-> <<>>, retried |-> FALSE,
            in |-> <<>>]

\* nothing has happened yet in this run of the queue
NoRun == [pushes |-> 0, taken |-> 0, succeeded |-> 0, published |-> 0, fetched |-> 0]

InitQueue ==
  /\ inferenceFunc_ = "null"
  /\ bufferingMode_ = "DOUBLE"
  /\ workerThread_ = <<>>
  /\ running_ = FALSE
  /\ inputBuffer_ = EmptyMat
  /\ inputMutex_ = Free
  /\ hasNewInput_ = FALSE
  /\ outputBuffer_ = EmptyMat
  /\ outputMutex_ = Free
  /\ hasOutput_ = FALSE
  /\ framesProcessed_ = 0
  /\ framesDropped_ = 0
  /\ wpc = [t \in Threads |-> "unborn"]
  /\ localInput = [t \in Threads |-> EmptyMat]
  /\ localOutput = [t \in Threads |-> EmptyMat]
  /\ cpc = "idle"
  /\ inStart = FALSE
  /\ startArgs = <<"null", "DOUBLE">>
  /\ callerMask = EmptyMat
  /\ nStart = 0
  /\ nPush = 0
  /\ nInfer = 0
  /\ lastOp = <<"none">>
  /\ lastPushed = EmptyMat
  /\ published = <<>>
  /\ delivered = <<>>
  /\ lastInfer = <<>>
  /\ inferred = <<>>
  /\ overwritten = {}
  /\ run = NoRun

InitSession ==
  /\ tf = NoSession
  /\ trtCacheDir = FALSE
  /\ build = NoBuild
  /\ nBuild = 0

\* A std::vector is a function on 0..n-1, so that an index of the model is the
\* index of the source.
Vec(seq) == [i \in 0..(Len(seq) - 1) |-> seq[i + 1]]
Size(v) == Cardinality(DOMAIN v)

NoVec == Vec(<<>>)

\* a filter_data before any session was built
InitTensors ==
  /\ session = <<>>
  /\ inputNames = NoVec
  /\ outputNames = NoVec
  /\ inputDims = NoVec
  /\ outputDims = NoVec
  /\ inputTensorValues = NoVec
  /\ outputTensorValues = NoVec
  /\ shapeRc = "none"
  /\ ipc = "idle"
  /\ outputImage = EmptyMat
  /\ output = EmptyMat
  /\ inferRc = "none"
  /\ stepLog = <<>>
  /\ inferRead = NoVec
  /\ nResolve = 0
  /\ nCycle = 0
  /\ nCall = 0
  /\ carried = <<>>

\* tf->model is set by the filter's settings, before createOrtSession is called
Descriptors == {"null", "RVM", "SINET"}

InitInfer == model = "null" /\ InitTensors

\* gpu-info.h:24-33: a default-constructed GpuInfo
NoGpuInfo ==
  [name |-> "", deviceId |-> 0, computeCapabilityMajor |-> 0, computeCapabilityMinor |-> 0,
   totalMemoryMB |-> 0, architecture |-> "UNKNOWN", defaultBuffering |-> "DOUBLE",
   defaultPrecision |-> "FP32"]

InitGpu ==
  /\ info = NoGpuInfo
  /\ detect = <<>>
  /\ nDetect = 0

Init == InitQueue /\ InitSession /\ InitInfer /\ InitGpu

\* the same with any of the descriptors configured
InitDescriptor == InitQueue /\ InitSession /\ model \in Descriptors /\ InitTensors /\ InitGpu

\* ------------------------------------------------- condition variable inputCv_
Waiting == {t \in Threads : wpc[t] = "waiting"}

\* notify_all(): every thread blocked in wait() is woken
NotifyAll(pc) == [t \in Threads |-> IF pc[t] = "waiting" THEN "woken" ELSE pc[t]]

NotifyNobody(pc) == {pc}

\* notify_one(): one of the blocked threads (if any) is woken
NotifyOne(pc) ==
  IF Waiting = {} THEN {pc}
  ELSE {[pc EXCEPT ![t] = "woken"] : t \in Waiting}

\* ------------------------------------------------------------ client: start()
StartNeverStops == FALSE

\* start(), lines 15-17: a running queue is stopped first (stop() line 39)
StartStopsFirst == running_

StartCall(func, mode) ==
  /\ cpc = "idle"
  /\ nStart < MaxStart
  /\ startArgs' = <<func, mode>>
  /\ inStart' = TRUE
  /\ IF StartStopsFirst
       THEN /\ running_' = FALSE
            /\ cpc' = "stop_notify"
       ELSE /\ running_' = running_
            /\ cpc' = "start_body"
  /\ UNCHANGED <<inferenceFunc_, bufferingMode_, workerThread_, inputBuffer_, inputMutex_,
                 hasNewInput_, outputBuffer_, outputMutex_, hasOutput_, framesProcessed_,
                 framesDropped_>>
  /\ UNCHANGED <<workerVars, callerMask, histVars, sessionVars, inferVars, gpuVars>>

\* start(), lines 19-27: no worker is alive here, so the stores are one step
StartBody ==
  /\ cpc = "start_body"
  /\ inferenceFunc_' = startArgs[1]
  /\ bufferingMode_' = startArgs[2]
  /\ running_' = TRUE
  /\ hasNewInput_' = FALSE
  /\ hasOutput_' = FALSE
  /\ framesProcessed_' = 0
  /\ framesDropped_' = 0
  /\ workerThread_' = <<nStart + 1>>
  /\ wpc' = [wpc EXCEPT ![nStart + 1] = "while"]
  /\ nStart' = nStart + 1
  /\ cpc' = "idle"
  /\ inStart' = FALSE
  /\ lastOp' = <<"start">>
  /\ run' = NoRun
  /\ UNCHANGED <<inputBuffer_, inputMutex_, outputBuffer_, outputMutex_>>
  /\ UNCHANGED <<localInput, localOutput, startArgs, callerMask, nPush, nInfer,
                 lastPushed, published, delivered, lastInfer, inferred, overwritten,
                 sessionVars, inferVars, gpuVars>>

\* ------------------------------------------------------------- client: stop()
StopNeverNoop == FALSE

\* stop(), line 35: the early return
StopIsNoop == ~running_

StopCall ==
  /\ cpc = "idle"
  /\ IF StopIsNoop
       THEN /\ lastOp' = <<"stop_noop">>
            /\ UNCHANGED <<running_, cpc, inStart>>
       ELSE /\ running_' = FALSE
            /\ cpc' = "stop_notify"
            /\ inStart' = FALSE
            /\ lastOp' = lastOp
  /\ UNCHANGED <<inferenceFunc_, bufferingMode_, workerThread_, inputBuffer_, inputMutex_,
                 hasNewInput_, outputBuffer_, outputMutex_, hasOutput_, framesProcessed_,
                 framesDropped_>>
  /\ UNCHANGED <<workerVars, startArgs, callerMask, nStart, nPush, nInfer, lastPushed,
                 published, delivered, lastInfer, inferred, overwritten, run, sessionVars,
                 inferVars, gpuVars>>

\* stop(), line 40: inputCv_.notify_all(), without inputMutex_
StopNotify ==
  /\ cpc = "stop_notify"
  /\ wpc' = NotifyAll(wpc)
  /\ cpc' = "stop_join"
  /\ UNCHANGED <<queueVars, localInput, localOutput, inStart, startArgs, callerMask,
                 histVars, sessionVars, inferVars, gpuVars>>

\* stop(), lines 42-47: join() returns once the worker has left workerLoop
StopJoin ==
  /\ cpc = "stop_join"
  /\ \/ /\ workerThread_ # <<>>
        /\ wpc[workerThread_[1]] = "exited"
        /\ workerThread_' = <<>>
     \/ /\ workerThread_ = <<>>
        /\ workerThread_' = workerThread_
  /\ cpc' = IF inStart THEN "start_body" ELSE "idle"
  /\ lastOp' = IF inStart THEN lastOp ELSE <<"stop">>
  /\ UNCHANGED <<inferenceFunc_, bufferingMode_, running_, inputBuffer_, inputMutex_,
                 hasNewInput_, outputBuffer_, outputMutex_, hasOutput_, framesProcessed_,
                 framesDropped_>>
  /\ UNCHANGED <<workerVars, inStart, startArgs, callerMask, nStart, nPush, nInfer,
                 lastPushed, published, delivered, lastInfer, inferred, overwritten, run,
                 sessionVars, inferVars, gpuVars>>

\* -------------------------------------------------------- client: pushFrame()
DroppedAfterEveryPush(pending, dropped) == dropped + 1

DroppedInDoubleOnly(pending, dropped) ==
  IF pending /\ bufferingMode_ = "DOUBLE" THEN dropped + 1 ELSE dropped

\* pushFrame(), lines 56-59: a frame still flagged as pending is counted as dropped
DroppedAfterPush(pending, dropped) == IF pending THEN dropped + 1 ELSE dropped

\* pushFrame(), lines 54-63, all under inputMutex_
PushFrame(frame) ==
  /\ cpc = "idle"
  /\ nPush < MaxPush
  /\ inputMutex_ = Free
  /\ framesDropped_' = DroppedAfterPush(hasNewInput_, framesDropped_)
  /\ inputBuffer_' = frame
  /\ hasNewInput_' = TRUE
  /\ wpc' \in NotifyOne(wpc)
  /\ nPush' = nPush + 1
  /\ lastPushed' = frame
  /\ lastOp' = <<"push">>
  /\ run' = [run EXCEPT !.pushes = @ + 1]
  /\ overwritten' = IF hasNewInput_ THEN overwritten \cup {inputBuffer_} ELSE overwritten
  /\ UNCHANGED <<inferenceFunc_, bufferingMode_, workerThread_, running_, inputMutex_,
                 outputBuffer_, outputMutex_, hasOutput_, framesProcessed_>>
  /\ UNCHANGED <<localInput, localOutput, clientVars, nStart, nInfer, published,
                 delivered, lastInfer, inferred, sessionVars, inferVars, gpuVars>>

\* ---------------------------------------------------- client: getLatestMask()
MaskAvailableIgnoresFlag == outputBuffer_ # EmptyMat

\* getLatestMask(), line 69: is there a mask to hand out
MaskAvailable == hasOutput_ /\ outputBuffer_ # EmptyMat

HasOutputKeptAfterGet == hasOutput_

\* getLatestMask(), line 74: the flag after a mask was handed out
HasOutputAfterGet == FALSE

\* getLatestMask(), lines 68-75, all under outputMutex_
GetLatestMask(mask) ==
  /\ cpc = "idle"
  /\ outputMutex_ = Free
  /\ IF MaskAvailable
       THEN /\ outputBuffer_' = mask
            /\ callerMask' = outputBuffer_
            /\ hasOutput_' = HasOutputAfterGet
            /\ delivered' = Append(delivered, outputBuffer_)
            /\ lastOp' = <<"get_true", mask>>
            /\ run' = [run EXCEPT !.fetched = @ + 1]
       ELSE /\ callerMask' = mask
            /\ lastOp' = <<"get_false", mask>>
            /\ UNCHANGED <<outputBuffer_, hasOutput_, delivered, run>>
  /\ UNCHANGED <<inferenceFunc_, bufferingMode_, workerThread_, running_, inputBuffer_,
                 inputMutex_, hasNewInput_, outputMutex_, framesProcessed_, framesDropped_>>
  /\ UNCHANGED <<workerVars, cpc, inStart, startArgs, nStart, nPush, nInfer, lastPushed,
                 published, lastInfer, inferred, overwritten, sessionVars, inferVars, gpuVars>>

\* ------------------------------------------------------------- workerLoop()
\* line 83: while (running_.load())
WorkerWhile(t) ==
  /\ wpc[t] = "while"
  /\ wpc' = [wpc EXCEPT ![t] = IF running_ THEN "lock" ELSE "exited"]
  /\ UNCHANGED <<queueVars, localInput, localOutput, clientVars, histVars, sessionVars, inferVars, gpuVars>>

\* line 86 (unique_lock) and the re-lock inside wait() after a wake-up
WorkerLock(t) ==
  /\ wpc[t] \in {"lock", "woken"}
  /\ inputMutex_ = Free
  /\ inputMutex_' = HeldBy(t)
  /\ wpc' = [wpc EXCEPT ![t] = "pred"]
  /\ UNCHANGED <<inferenceFunc_, bufferingMode_, workerThread_, running_, inputBuffer_,
                 hasNewInput_, outputBuffer_, outputMutex_, hasOutput_, framesProcessed_,
                 framesDropped_>>
  /\ UNCHANGED <<localInput, localOutput, clientVars, histVars, sessionVars, inferVars, gpuVars>>

\* line 87: the wait predicate, evaluated with inputMutex_ held
WaitPredicate == hasNewInput_ \/ ~running_

WorkerPred(t) ==
  /\ wpc[t] = "pred"
  /\ wpc' = [wpc EXCEPT ![t] = IF WaitPredicate THEN "brk" ELSE "block"]
  /\ UNCHANGED <<queueVars, localInput, localOutput, clientVars, histVars, sessionVars, inferVars, gpuVars>>

\* line 87: inside wait(), the predicate was false: release inputMutex_ and block
WorkerBlock(t) ==
  /\ wpc[t] = "block"
  /\ inputMutex_' = Free
  /\ wpc' = [wpc EXCEPT ![t] = "waiting"]
  /\ UNCHANGED <<inferenceFunc_, bufferingMode_, workerThread_, running_, inputBuffer_,
                 hasNewInput_, outputBuffer_, outputMutex_, hasOutput_, framesProcessed_,
                 framesDropped_>>
  /\ UNCHANGED <<localInput, localOutput, clientVars, histVars, sessionVars, inferVars, gpuVars>>

\* condition_variable::wait may wake without a notification
WorkerSpuriousWake(t) ==
  /\ wpc[t] = "waiting"
  /\ wpc' = [wpc EXCEPT ![t] = "woken"]
  /\ UNCHANGED <<queueVars, localInput, localOutput, clientVars, histVars, sessionVars, inferVars, gpuVars>>

ExitsOnShutdownIfNothingPending == ~running_ /\ ~hasNewInput_

\* line 89: leave the loop on shutdown, whatever is pending
ExitsOnShutdown == ~running_

HasNewInputKeptAfterPickup == hasNewInput_

\* line 96: the flag after the pickup
HasNewInputAfterPickup == FALSE

InputMutexKeptAfterTake(t) == HeldBy(t)

\* lines 90 and 97: the unique_lock goes out of scope, by break or at the brace
InputMutexAfterTake(t) == Free

\* lines 89-99: shutdown check, swap of the input slot, unlock, empty-frame check
WorkerTake(t) ==
  /\ wpc[t] = "brk"
  /\ inputMutex_' = InputMutexAfterTake(t)
  /\ IF ExitsOnShutdown
       THEN /\ wpc' = [wpc EXCEPT ![t] = "exited"]
            /\ localInput' = [localInput EXCEPT ![t] = EmptyMat]
            /\ localOutput' = [localOutput EXCEPT ![t] = EmptyMat]
            /\ UNCHANGED <<inputBuffer_, hasNewInput_, run>>
       ELSE /\ inputBuffer_' = localInput[t]
            /\ localInput' = [localInput EXCEPT ![t] = inputBuffer_]
            /\ hasNewInput_' = HasNewInputAfterPickup
            /\ wpc' = [wpc EXCEPT ![t] = IF inputBuffer_ = EmptyMat THEN "while" ELSE "infer"]
            /\ run' = [run EXCEPT !.taken = @ + 1]
            /\ UNCHANGED localOutput
  /\ UNCHANGED <<inferenceFunc_, bufferingMode_, workerThread_, running_, outputBuffer_,
                 outputMutex_, hasOutput_, framesProcessed_, framesDropped_>>
  /\ UNCHANGED <<clientVars, nStart, nPush, nInfer, lastOp, lastPushed, published,
                 delivered, lastInfer, inferred, overwritten, sessionVars, inferVars, gpuVars>>

PublishesWhateverReturned(ok) == inferenceFunc_ # "null"

\* line 107: the result is published only if the function is set and returned true
PublishesResult(ok) == inferenceFunc_ # "null" /\ ok

AfterFailedCycleExits == "exited"

\* where the worker continues after a cycle that is not published
AfterFailedCycle == "while"

\* line 107: inferenceFunc_(localInput, localOutput), no mutex held
WorkerInfer(t, ok) ==
  /\ wpc[t] = "infer"
  /\ IF inferenceFunc_ # "null"
       THEN /\ nInfer' = nInfer + 1
            /\ lastInfer' = <<t, ok>>
            /\ localOutput' = [localOutput EXCEPT ![t] =
                                 IF ok THEN <<localInput[t][1], nInfer + 1>> ELSE @]
            /\ inferred' = Append(inferred, localInput[t])
            /\ run' = [run EXCEPT !.succeeded = IF ok THEN @ + 1 ELSE @]
       ELSE UNCHANGED <<nInfer, lastInfer, localOutput, inferred, run>>
  /\ overwritten' = overwritten
  /\ wpc' = [wpc EXCEPT ![t] = IF PublishesResult(ok) THEN "publock" ELSE AfterFailedCycle]
  /\ UNCHANGED <<queueVars, localInput, clientVars, nStart, nPush, lastOp, lastPushed,
                 published, delivered, sessionVars, inferVars, gpuVars>>

\* line 109: lock_guard on outputMutex_
WorkerPubLock(t) ==
  /\ wpc[t] = "publock"
  /\ outputMutex_ = Free
  /\ outputMutex_' = HeldBy(t)
  /\ wpc' = [wpc EXCEPT ![t] = "publish"]
  /\ UNCHANGED <<inferenceFunc_, bufferingMode_, workerThread_, running_, inputBuffer_,
                 inputMutex_, hasNewInput_, outputBuffer_, hasOutput_, framesProcessed_,
                 framesDropped_>>
  /\ UNCHANGED <<localInput, localOutput, clientVars, histVars, sessionVars, inferVars, gpuVars>>

\* lines 110-113: swap into the output slot, flag, count, unlock
WorkerPublish(t) ==
  /\ wpc[t] = "publish"
  /\ outputBuffer_' = localOutput[t]
  /\ localOutput' = [localOutput EXCEPT ![t] = outputBuffer_]
  /\ hasOutput_' = TRUE
  /\ framesProcessed_' = framesProcessed_ + 1
  /\ outputMutex_' = Free
  /\ published' = Append(published, localOutput[t])
  /\ run' = [run EXCEPT !.published = @ + 1]
  /\ wpc' = [wpc EXCEPT ![t] = "while"]
  /\ UNCHANGED <<inferenceFunc_, bufferingMode_, workerThread_, running_, inputBuffer_,
                 inputMutex_, hasNewInput_, framesDropped_>>
  /\ UNCHANGED <<localInput, clientVars, nStart, nPush, nInfer, lastOp, lastPushed,
                 delivered, lastInfer, inferred, overwritten, sessionVars, inferVars, gpuVars>>

\* ------------------------------------------------------------ specification
\* a frame handed to pushFrame: a new non-empty frame, or an empty Mat
NewFrames == {<<nPush + 1>>, EmptyMat}

\* the Mat handed to getLatestMask: the caller's retained buffer, or a fresh one
CallerMats == {callerMask, EmptyMat}

ClientNext ==
  \/ \E func \in {"null", "fn"}, mode \in {"DOUBLE", "TRIPLE"} : StartCall(func, mode)
  \/ StartBody
  \/ StopCall
  \/ StopNotify
  \/ StopJoin
  \/ \E frame \in NewFrames : PushFrame(frame)
  \/ \E mask \in CallerMats : GetLatestMask(mask)

\* the steps a live worker thread takes without waiting for anyone
WorkerRuns(t) ==
  \/ WorkerWhile(t)
  \/ WorkerLock(t)
  \/ WorkerPred(t)
  \/ WorkerBlock(t)
  \/ WorkerTake(t)
  \/ \E ok \in BOOLEAN : WorkerInfer(t, ok)
  \/ WorkerPubLock(t)
  \/ WorkerPublish(t)

WorkerNext == \E t \in Threads : WorkerRuns(t) \/ WorkerSpuriousWake(t)

Next == ClientNext \/ WorkerNext

Spec == Init /\ [][Next]_vars

\* the client's calls; the buffering mode, which nothing reads, stays DOUBLE
ClientNextOneMode ==
  \/ \E func \in {"null", "fn"} : StartCall(func, "DOUBLE")
  \/ StartBody
  \/ StopCall
  \/ StopNotify
  \/ StopJoin
  \/ \E frame \in NewFrames : PushFrame(frame)
  \/ \E mask \in CallerMats : GetLatestMask(mask)

NextLive == ClientNextOneMode \/ WorkerNext

\* The queue under a fair scheduler: a worker thread that can take a step of its
\* own eventually takes it. Nothing is assumed about spurious wake-ups or about
\* what the client calls.
SpecLive == Init /\ [][NextLive]_vars /\ \A t \in Threads : WF_vars(WorkerRuns(t))

\* ---------------------------------------------------------- createOrtSession
\* What the environment answers during one createOrtSession call:
\*   model, file      tf->model is set; obs_module_file() resolves the model file
\*   useGPU           the requested mode
\*   trtThrows        the TensorRT configuration step that throws, if any
\*   cudaOk, sessionOk            line 118/121 appends CUDA; line 123 constructs
\*   cudaRetryOk, sessionRetryOk  the same in the retry, lines 135 and 136
\*   shapesOk         populateInputOutputShapes() returns true
TrtSteps == <<"cache", "create", "update", "append">>
Answers ==
  [model : BOOLEAN, file : BOOLEAN, useGPU : {"tensorrt", "cuda"},
   trtThrows : {"none", "cache", "create", "update", "append"},
   cudaOk : BOOLEAN, sessionOk : BOOLEAN, cudaRetryOk : BOOLEAN,
   sessionRetryOk : BOOLEAN, shapesOk : BOOLEAN]

\* An answer the call never asks for after its two validations is left at its
\* default (TRUE, "none", "cuda"), so that two calls differ only in what the code
\* could observe.
Asked(in) ==
  LET valid == in.model /\ in.file
      trt == valid /\ in.useGPU = "tensorrt"
      first == valid /\ in.cudaOk /\ in.sessionOk
      retry == trt /\ ~first
      second == retry /\ in.cudaRetryOk /\ in.sessionRetryOk
  IN /\ ~valid => in.useGPU = "cuda" /\ in.cudaOk
     /\ ~trt => in.trtThrows = "none"
     /\ ~(valid /\ in.cudaOk) => in.sessionOk
     /\ ~retry => in.cudaRetryOk
     /\ ~(retry /\ in.cudaRetryOk) => in.sessionRetryOk
     /\ ~(first \/ second) => in.shapesOk

BuildInputs == {in \in Answers : Asked(in)}

ValidationErrorFileFirst(in) ==
  IF ~in.file THEN "FILE_NOT_FOUND"
  ELSE IF ~in.model THEN "INVALID_MODEL"
  ELSE "none"

\* lines 33-49: the checks made before anything is configured
ValidationError(in) ==
  IF ~in.model THEN "INVALID_MODEL"
  ELSE IF ~in.file THEN "FILE_NOT_FOUND"
  ELSE "none"

\* lines 60-116: the TensorRT provider is configured step by step; a throw at any
\* step is caught at line 114. The steps run, in order, up to the throwing one.
TrtStepsRun(in) ==
  IF in.trtThrows = "none" THEN TrtSteps
  ELSE LET k == CHOOSE i \in 1..Len(TrtSteps) : TrtSteps[i] = in.trtThrows
       IN SubSeq(TrtSteps, 1, k)

\* line 27: create_directories succeeded
TrtCacheCreated(in) == in.trtThrows # "cache"

\* lines 110-111: the provider is in the chain once the append has returned
TrtChain(in) == IF in.trtThrows = "none" THEN <<"TensorRT">> ELSE <<>>

FirstChainNoFallback(in) ==
  IF in.useGPU = "tensorrt" THEN TrtChain(in) ELSE <<"CUDA">>

\* lines 58-122: the provider chain of the first attempt; CUDA is always appended
FirstChain(in) ==
  IF in.useGPU = "tensorrt" THEN TrtChain(in) \o <<"CUDA">> ELSE <<"CUDA">>

RetriesAlways(in) == TRUE

\* line 125: only the TensorRT mode retries
RetriesOnFailure(in) == in.useGPU = "tensorrt"

\* lines 131-135: the provider chain of the retry
RetryChain == <<"CUDA">>

\* lines 150-174: names, shapes and buffers after a session was constructed
AfterSession(tf1, in, b) ==
  LET named == [tf1 EXCEPT !.inputNames = <<b>>, !.outputNames = <<b>>,
                           !.inputDims = <<b>>, !.outputDims = <<b>>]
  IN IF ~in.shapesOk
       THEN [tf |-> named, rc |-> "INVALID_INPUT_OUTPUT"]
       ELSE [tf |-> [named EXCEPT !.tensorBuffers = <<b>>], rc |-> "SUCCESS"]

\* createOrtSession(tf), lines 31-177, as call number b
createOrtSession(tf0, dir0, in, b) ==
  LET none == [rc |-> "none", attempts |-> <<>>, configured |-> <<>>, retried |-> FALSE,
               in |-> in]
  IN
  IF ValidationError(in) # "none"
    THEN [tf |-> tf0, dir |-> dir0, build |-> [none EXCEPT !.rc = ValidationError(in)]]
    ELSE
      LET tf1 == [tf0 EXCEPT !.modelFilepath = <<b>>]
          trt == in.useGPU = "tensorrt"
          dir1 == dir0 \/ (trt /\ TrtCacheCreated(in))
          configured == (IF trt THEN TrtStepsRun(in) ELSE <<>>) \o <<"cuda">>
          \* first try block, lines 57-123
          constructs1 == in.cudaOk
          ok1 == in.cudaOk /\ in.sessionOk
          attempts1 == IF constructs1 THEN <<FirstChain(in)>> ELSE <<>>
          \* the catch at line 124
          retried == ~ok1 /\ RetriesOnFailure(in)
          constructs2 == retried /\ in.cudaRetryOk
          ok2 == constructs2 /\ in.sessionRetryOk
          attempts == IF constructs2 THEN Append(attempts1, RetryChain) ELSE attempts1
          done == [none EXCEPT !.attempts = attempts, !.retried = retried,
                               !.configured = IF retried THEN Append(configured, "cuda")
                                              ELSE configured]
          tf2 == IF ok1 THEN [tf1 EXCEPT !.session = <<b, FirstChain(in)>>]
                 ELSE IF ok2 THEN [tf1 EXCEPT !.session = <<b, RetryChain>>]
                 ELSE tf1
      IN IF ~(ok1 \/ ok2)
           THEN [tf |-> tf2, dir |-> dir1, build |-> [done EXCEPT !.rc = "STARTUP"]]
           ELSE LET r == AfterSession(tf2, in, b)
                IN [tf |-> r.tf, dir |-> dir1, build |-> [done EXCEPT !.rc = r.rc]]

Build(in) ==
  /\ nBuild < MaxBuild
  /\ LET r == createOrtSession(tf, trtCacheDir, in, nBuild + 1)
     IN /\ tf' = r.tf
        /\ trtCacheDir' = r.dir
        /\ build' = r.build
  /\ nBuild' = nBuild + 1
  /\ UNCHANGED <<queueVars, workerVars, clientVars, histVars, inferVars, gpuVars>>

NextSession == \E in \in BuildInputs : Build(in)

SpecSession == Init /\ [][NextSession]_vars

\* ------------------------------------------------- ModelRVM: shape derivation
\* ModelRVM.h:13-18
INPUT_WIDTH == 1920
INPUT_HEIGHT == 1080
\* 0.25f, as numerator and denominator
DOWNSAMPLE_RATIO == <<1, 4>>
REC_CHANNELS == Vec(<<16, 20, 40, 64>>)

\* ModelSINET.h:30: the network works on 320 x 320 images
SINET_SIZE == 320

\* a dimension as the graph declares it: -1 when it is dynamic
Declared(dynamic, n) == IF dynamic THEN -1 ELSE n

\* lines 71-72: (int)(x * DOWNSAMPLE_RATIO)
Internal(x) == (x * DOWNSAMPLE_RATIO[1]) \div DOWNSAMPLE_RATIO[2]

HalfFloor(x) == x \div 2

\* lines 77-78 and 96-97: ceil division by 2
HalfCeil(x) == (x + 1) \div 2

\* lines 76-84: the value of h (or w) in iteration i of the loop, i = 0..3
RECURSIVE LoopValue(_, _)
LoopValue(x, i) == IF i = 0 THEN HalfCeil(x) ELSE HalfCeil(LoopValue(x, i - 1))

\* The graph of a recurrent matting network as the session reports it: inputs
\* src, r1i..r4i, downsample_ratio and outputs fgr, pha, r1o..r4o, each dimension
\* static or dynamic as the model file was exported.
RvmGraph(dynBatch, dynSpatial, dynRecIn, dynRecOut, dynRatio) ==
  LET b == Declared(dynBatch, 1)
      h == Declared(dynSpatial, INPUT_HEIGHT)
      w == Declared(dynSpatial, INPUT_WIDTH)
      rec(i, dynChannels) ==
        Vec(<<b, Declared(dynChannels, REC_CHANNELS[i]),
              Declared(dynSpatial, LoopValue(Internal(INPUT_HEIGHT), i)),
              Declared(dynSpatial, LoopValue(Internal(INPUT_WIDTH), i))>>)
  IN [kind |-> "RVM",
      inputNames |-> Vec(<<"src", "r1i", "r2i", "r3i", "r4i", "downsample_ratio">>),
      outputNames |-> Vec(<<"fgr", "pha", "r1o", "r2o", "r3o", "r4o">>),
      inputs |-> Vec(<<Vec(<<b, 3, h, w>>), rec(0, dynRecIn), rec(1, dynRecIn),
                       rec(2, dynRecIn), rec(3, dynRecIn),
                       Vec(<<Declared(dynRatio, 1)>>)>>),
      outputs |-> Vec(<<Vec(<<b, 3, h, w>>), Vec(<<b, 1, h, w>>), rec(0, dynRecOut),
                        rec(1, dynRecOut), rec(2, dynRecOut), rec(3, dynRecOut)>>)]

RvmGraphs ==
  {RvmGraph(a, b, c, d, e) : a \in BOOLEAN, b \in BOOLEAN, c \in BOOLEAN, d \in BOOLEAN,
                             e \in BOOLEAN}

\* the graph of the single-frame segmentation network: one image in, one
\* two-channel map out
SinetGraph(dynBatch) ==
  [kind |-> "SINET",
   inputNames |-> Vec(<<"input">>),
   outputNames |-> Vec(<<"output">>),
   inputs |-> Vec(<<Vec(<<Declared(dynBatch, 1), 3, SINET_SIZE, SINET_SIZE>>)>>),
   outputs |-> Vec(<<Vec(<<Declared(dynBatch, 1), 2, SINET_SIZE, SINET_SIZE>>)>>)]

SinetGraphs == {SinetGraph(a) : a \in BOOLEAN}

\* the model files a descriptor is paired with
GraphsFor(m) == IF m = "RVM" THEN RvmGraphs ELSE SinetGraphs

\* v without its first element (ModelRVM.h:39 and 57: output 0, fgr, is skipped)
SkipFirst(v) == [i \in 0..(Size(v) - 2) |-> v[i + 1]]

\* ModelRVM::populateInputOutputNames, lines 26-42
RvmNames(g) == [inputNames |-> g.inputNames, outputNames |-> SkipFirst(g.outputNames)]

\* ModelRVM::populateInputOutputShapes, lines 51-84: inputDims
RvmInputDims(g) ==
  [i \in DOMAIN g.inputs |->
     IF i = 0
       THEN [g.inputs[0] EXCEPT ![0] = 1, ![2] = INPUT_HEIGHT, ![3] = INPUT_WIDTH]
     ELSE IF i - 1 \in 0..3
       THEN [g.inputs[i] EXCEPT ![0] = 1, ![1] = REC_CHANNELS[i - 1],
                                ![2] = LoopValue(Internal(INPUT_HEIGHT), i - 1),
                                ![3] = LoopValue(Internal(INPUT_WIDTH), i - 1)]
     ELSE g.inputs[i]]

\* ModelRVM::populateInputOutputShapes, lines 57-61 and 87-101: outputDims
RvmOutputDims(g) ==
  LET got == SkipFirst(g.outputs)
  IN [i \in DOMAIN got |->
        IF i = 0
          THEN [got[0] EXCEPT ![0] = 1, ![2] = INPUT_HEIGHT, ![3] = INPUT_WIDTH]
        ELSE IF i - 1 \in 0..3
          THEN [got[i] EXCEPT ![0] = 1,
                              ![2] = LoopValue(Internal(INPUT_HEIGHT), i - 1),
                              ![3] = LoopValue(Internal(INPUT_WIDTH), i - 1)]
        ELSE got[i]]

\* ModelRVM::populateInputOutputShapes, line 103: it has no failing path
RvmShapesOk(g) == TRUE

\* first dimension 1, every dimension positive
Consistent(shape) == shape[0] = 1 /\ \A d \in DOMAIN shape : shape[d] > 0
AllConsistent(dims) == \A i \in DOMAIN dims : Consistent(dims[i])

\* The descriptors without recurrent state take names and shapes from the base
\* class: all inputs and all outputs as the graph declares them, and the result
\* is rejected unless it is consistent.
StatelessNames(g) == [inputNames |-> g.inputNames, outputNames |-> g.outputNames]
StatelessInputDims(g) == g.inputs
StatelessOutputDims(g) == g.outputs
StatelessShapesOk(g) == AllConsistent(g.inputs) /\ AllConsistent(g.outputs)

\* tf->model->populateInputOutputNames / populateInputOutputShapes, by variant
populateInputOutputNames(m, g) == IF m = "RVM" THEN RvmNames(g) ELSE StatelessNames(g)
populateInputOutputShapes(m, g) ==
  IF m = "RVM"
    THEN [ok |-> RvmShapesOk(g), inputDims |-> RvmInputDims(g),
          outputDims |-> RvmOutputDims(g)]
    ELSE [ok |-> StatelessShapesOk(g), inputDims |-> StatelessInputDims(g),
          outputDims |-> StatelessOutputDims(g)]

\* the number of elements of a tensor of the given shape
RECURSIVE ElementsFrom(_, _)
ElementsFrom(shape, d) ==
  IF d \notin DOMAIN shape THEN 1 ELSE shape[d] * ElementsFrom(shape, d + 1)
Elements(shape) == ElementsFrom(shape, 0)

\* allocateTensorBuffers: one zero-filled buffer per resolved shape
Zeroed == <<"zero">>
allocateTensorBuffers(dims) ==
  [i \in DOMAIN dims |-> [len |-> Elements(dims[i]), data |-> Zeroed]]

\* createOrtSession for a model file whose session is constructed (lines 57-123
\* succeed): the early return of line 33, then lines 148-176
CreateSession(g) ==
  /\ ipc = "idle"
  /\ nResolve < MaxBuild
  /\ nResolve' = nResolve + 1
  /\ IF model = "null"
       THEN /\ shapeRc' = "INVALID_MODEL"
            /\ UNCHANGED <<session, inputNames, outputNames, inputDims, outputDims,
                           inputTensorValues, outputTensorValues, nCycle>>
       ELSE LET names == populateInputOutputNames(model, g)
                shapes == populateInputOutputShapes(model, g)
            IN /\ g \in GraphsFor(model)
               /\ session' = <<g>>
               /\ inputNames' = names.inputNames
               /\ outputNames' = names.outputNames
               /\ inputDims' = shapes.inputDims
               /\ outputDims' = shapes.outputDims
               /\ IF ~shapes.ok
                    THEN /\ shapeRc' = "INVALID_INPUT_OUTPUT"
                         /\ UNCHANGED <<inputTensorValues, outputTensorValues, nCycle>>
                    ELSE /\ shapeRc' = "SUCCESS"
                         /\ inputTensorValues' = allocateTensorBuffers(shapes.inputDims)
                         /\ outputTensorValues' = allocateTensorBuffers(shapes.outputDims)
                         /\ nCycle' = 0
  /\ UNCHANGED <<model, ipc, outputImage, output, inferRc, stepLog, inferRead, nCall,
                 carried>>
  /\ UNCHANGED <<queueVars, workerVars, clientVars, histVars, sessionVars, gpuVars>>

\* ---------------------------------------------------- runFilterModelInference
CycleCallsCarryFirst ==
  <<"preprocess", "setExtraTensorInputs", "runNetworkInference", "assignOutputToInput",
    "getNetworkOutput", "postprocessOutput", "convertTo">>

CycleCallsNoCarry ==
  <<"preprocess", "setExtraTensorInputs", "runNetworkInference", "getNetworkOutput",
    "postprocessOutput", "convertTo">>

\* lines 189-223: the calls of one cycle, in program order
CycleCalls ==
  <<"preprocess", "setExtraTensorInputs", "runNetworkInference", "getNetworkOutput",
    "assignOutputToInput", "postprocessOutput", "convertTo">>

\* where the cycle continues after a call; line 225 returns after the last one
Following(call) ==
  LET k == CHOOSE i \in DOMAIN CycleCalls : CycleCalls[i] = call
  IN IF k = Len(CycleCalls) THEN "idle" ELSE CycleCalls[k + 1]

\* lines 181-186: no session or no descriptor
RejectedUpFront == session = <<>> \/ model = "null"

\* A call of runFilterModelInference: lines 181-186, then the first call. The
\* filter is run only while the last build did not stop after constructing the
\* session, and a session is rebuilt only between cycles.
RunBegin ==
  /\ ipc = "idle"
  /\ nCall < MaxCycle
  /\ shapeRc # "INVALID_INPUT_OUTPUT"
  /\ nCall' = nCall + 1
  /\ stepLog' = <<>>
  /\ IF RejectedUpFront
       THEN /\ inferRc' = FALSE
            /\ UNCHANGED <<ipc, nCycle>>
       ELSE /\ inferRc' = "running"
            /\ ipc' = CycleCalls[1]
            /\ nCycle' = nCycle + 1
  /\ UNCHANGED <<model, session, inputNames, outputNames, inputDims, outputDims,
                 inputTensorValues, outputTensorValues, shapeRc, outputImage, output,
                 inferRead, nResolve, carried>>
  /\ UNCHANGED <<queueVars, workerVars, clientVars, histVars, sessionVars, gpuVars>>

\* what every call of the cycle does to the position and the log
Called(call) ==
  /\ ipc = call
  /\ ipc' = Following(call)
  /\ stepLog' = Append(stepLog, call)
  /\ UNCHANGED <<model, session, inputNames, outputNames, inputDims, outputDims, shapeRc,
                 nResolve, nCycle, nCall>>
  /\ UNCHANGED <<queueVars, workerVars, clientVars, histVars, sessionVars, gpuVars>>

\* lines 193-198: the frame is converted straight into inputTensorValues[0]
Preprocess ==
  /\ Called("preprocess")
  /\ inputTensorValues' = [inputTensorValues EXCEPT ![0].data = <<"frame", nCall>>]
  /\ UNCHANGED <<outputTensorValues, outputImage, output, inferRc, inferRead, carried>>

\* ModelRVM::setExtraTensorInputs, line 108; the other descriptors write nothing
SetExtraTensorInputs ==
  /\ Called("setExtraTensorInputs")
  /\ inputTensorValues' =
       IF model = "RVM"
         THEN [inputTensorValues EXCEPT ![5].data = <<"ratio", DOWNSAMPLE_RATIO>>]
         ELSE inputTensorValues
  /\ UNCHANGED <<outputTensorValues, outputImage, output, inferRc, inferRead, carried>>

\* lines 204-208: the session reads every input buffer and writes every output
\* buffer in place
RunNetworkInference ==
  /\ Called("runNetworkInference")
  /\ inferRead' = inputTensorValues
  /\ outputTensorValues' =
       [i \in DOMAIN outputTensorValues |->
          [outputTensorValues[i] EXCEPT !.data = <<"out", nCall, i>>]]
  /\ UNCHANGED <<inputTensorValues, outputImage, output, inferRc, carried>>

\* line 211 (ModelSINET.h:30): the image is a view of output buffer 0
GetNetworkOutput ==
  /\ Called("getNetworkOutput")
  /\ outputImage' = <<"image", outputTensorValues[0].data>>
  /\ UNCHANGED <<inputTensorValues, outputTensorValues, output, inferRc, inferRead, carried>>

StateSlotsShort == 1..3

\* ModelRVM::assignOutputToInput, line 121: for (size_t i = 1; i < 5; i++)
StateSlots == 1..4

\* ModelRVM::assignOutputToInput, line 122: vector::assign copies values and size
AssignRvm(outputValues, inputValues) ==
  [i \in DOMAIN inputValues |->
     IF i \in StateSlots THEN outputValues[i] ELSE inputValues[i]]

\* the descriptors without recurrent state carry nothing
AssignStateless(outputValues, inputValues) == inputValues

\* line 214: tf->model->assignOutputToInput(outputTensorValues, inputTensorValues)
AssignOutputToInput ==
  /\ Called("assignOutputToInput")
  /\ inputTensorValues' =
       IF model = "RVM" THEN AssignRvm(outputTensorValues, inputTensorValues)
       ELSE AssignStateless(outputTensorValues, inputTensorValues)
  /\ carried' = Append(carried, nCall)
  /\ UNCHANGED <<outputTensorValues, outputImage, output, inferRc, inferRead>>

\* lines 217-220
PostprocessOutput ==
  /\ Called("postprocessOutput")
  /\ outputImage' = <<"post", outputImage>>
  /\ UNCHANGED <<inputTensorValues, outputTensorValues, output, inferRc, inferRead, carried>>

\* lines 223-225: the result goes to the caller's Mat, the call returns true
ConvertTo ==
  /\ Called("convertTo")
  /\ output' = <<"u8", outputImage>>
  /\ inferRc' = TRUE
  /\ UNCHANGED <<inputTensorValues, outputTensorValues, outputImage, inferRead, carried>>

NextInfer ==
  \/ \E g \in RvmGraphs \cup SinetGraphs : CreateSession(g)
  \/ RunBegin
  \/ Preprocess
  \/ SetExtraTensorInputs
  \/ RunNetworkInference
  \/ GetNetworkOutput
  \/ AssignOutputToInput
  \/ PostprocessOutput
  \/ ConvertTo

SpecInfer == InitDescriptor /\ [][NextInfer]_vars

\* ------------------------------------------------ the queue driving the cycle
\* The filter installs runFilterModelInference as the queue's inference function:
\* the worker's call at async-inference-queue.cpp:107 runs one cycle on the
\* filter's tensors and returns what the cycle returns. The session is built
\* before the queue is started.
PipelineGraphs ==
  {RvmGraph(FALSE, FALSE, FALSE, FALSE, FALSE), SinetGraph(FALSE)}

PipeCreateSession ==
  /\ nStart = 0 /\ cpc = "idle" /\ nResolve = 0
  /\ \E g \in PipelineGraphs : CreateSession(g)

\* the worker enters the inference function: lines 181-186 of the cycle
PipeRunBegin ==
  /\ \E t \in Threads : wpc[t] = "infer"
  /\ inferenceFunc_ # "null"
  /\ nCall = nInfer
  /\ RunBegin

\* the inference function returns to the worker what the cycle returned
PipeWorkerInfer(t) ==
  IF inferenceFunc_ = "null"
    THEN WorkerInfer(t, FALSE)
    ELSE /\ nCall = nInfer + 1
         /\ ipc = "idle"
         /\ WorkerInfer(t, inferRc)

PipeWorkerRuns(t) ==
  \/ WorkerWhile(t)
  \/ WorkerLock(t)
  \/ WorkerPred(t)
  \/ WorkerBlock(t)
  \/ WorkerTake(t)
  \/ PipeWorkerInfer(t)
  \/ WorkerPubLock(t)
  \/ WorkerPublish(t)

NextPipeline ==
  \/ ClientNextOneMode
  \/ PipeCreateSession
  \/ \E t \in Threads : PipeWorkerRuns(t) \/ WorkerSpuriousWake(t)
  \/ PipeRunBegin
  \/ Preprocess
  \/ SetExtraTensorInputs
  \/ RunNetworkInference
  \/ GetNetworkOutput
  \/ AssignOutputToInput
  \/ PostprocessOutput
  \/ ConvertTo

SpecPipeline == InitDescriptor /\ [][NextPipeline]_vars

\* ---------------------------------------------------------------- detectGpu
\* What the CUDA runtime answers during one detectGpu call: the results of
\* cudaGetDeviceCount and cudaGetDeviceProperties and the properties of device 0.
\* An answer the call never asks for is left at its default.
GpuAnswers ==
  {a \in [countErr : {"cudaSuccess", "cudaErrorNoDevice"}, deviceCount : 0..2,
          propsErr : {"cudaSuccess", "cudaErrorInvalidDevice"},
          name : {"", "NVIDIA GPU"}, major : 0..MaxMajor, minor : 0..MaxMinor,
          totalGlobalMem : {0, 1073741825}] :
     LET asked == a.countErr = "cudaSuccess" /\ a.deviceCount > 0
         props == asked /\ a.propsErr = "cudaSuccess"
     IN /\ a.countErr # "cudaSuccess" => a.deviceCount = 0
        /\ ~asked => a.propsErr = "cudaSuccess"
        /\ props <=> a.name = "NVIDIA GPU"
        /\ props <=> a.totalGlobalMem # 0
        /\ ~props => a.major = 0 /\ a.minor = 0}

\* lines 11 and 18: the two early returns
NotFound(a) ==
  \/ a.countErr # "cudaSuccess" \/ a.deviceCount = 0
  \/ a.propsErr # "cudaSuccess"

\* the defaults as the comments of gpu-info.h:14-22 give them
DefaultsPerHeader(sm) ==
  IF sm >= 89
    THEN [architecture |-> "ADA_LOVELACE", defaultBuffering |-> "TRIPLE",
          defaultPrecision |-> "FP16"]
  ELSE IF sm >= 80
    THEN [architecture |-> "AMPERE", defaultBuffering |-> "TRIPLE",
          defaultPrecision |-> "FP16"]
  ELSE IF sm >= 75
    THEN [architecture |-> "TURING", defaultBuffering |-> "DOUBLE",
          defaultPrecision |-> "FP32"]
  ELSE [architecture |-> "UNKNOWN", defaultBuffering |-> "DOUBLE",
        defaultPrecision |-> "FP32"]

\* lines 31-47: architecture and defaults by capability score
Defaults(sm) ==
  IF sm >= 89
    THEN [architecture |-> "ADA_LOVELACE", defaultBuffering |-> "TRIPLE",
          defaultPrecision |-> "FP16"]
  ELSE IF sm >= 80
    THEN [architecture |-> "AMPERE", defaultBuffering |-> "DOUBLE",
          defaultPrecision |-> "FP16"]
  ELSE IF sm >= 75
    THEN [architecture |-> "TURING", defaultBuffering |-> "DOUBLE",
          defaultPrecision |-> "FP32"]
  ELSE [architecture |-> "UNKNOWN", defaultBuffering |-> "DOUBLE",
        defaultPrecision |-> "FP32"]

\* line 29
Score(major, minor) == major * 10 + minor

\* detectGpu(info), lines 7-53: the return value and the caller's GpuInfo
detectGpu(info0, a) ==
  IF NotFound(a) THEN [rc |-> FALSE, info |-> info0]
  ELSE LET d == Defaults(Score(a.major, a.minor))
       IN [rc |-> TRUE,
           info |-> [name |-> a.name, deviceId |-> 0,
                     computeCapabilityMajor |-> a.major,
                     computeCapabilityMinor |-> a.minor,
                     totalMemoryMB |-> a.totalGlobalMem \div (1024 * 1024),
                     architecture |-> d.architecture,
                     defaultBuffering |-> d.defaultBuffering,
                     defaultPrecision |-> d.defaultPrecision]]

DetectGpu(a) ==
  /\ nDetect < MaxDetect
  /\ LET r == detectGpu(info, a)
     IN /\ info' = r.info
        /\ detect' = <<[in |-> a, rc |-> r.rc]>>
  /\ nDetect' = nDetect + 1
  /\ UNCHANGED <<queueVars, workerVars, clientVars, histVars, sessionVars, inferVars>>

NextGpu == \E a \in GpuAnswers : DetectGpu(a)

SpecGpu == Init /\ [][NextGpu]_vars

\* ==================================================================== claims
\* the worker thread the queue's handle refers to, if any
Live(t) == wpc[t] \notin {"unborn", "exited"}
LiveWorkers == {t \in Threads : Live(t)}

\* C1: shutdown never blocks indefinitely. Once stop() has stored the flag and
\* notified, and waits in join(), the shutdown can always go on: the worker has
\* a step to take that needs no further notification, or join() returns. A state
\* where neither is possible is a shutdown that only a spurious wake-up ends.
C1_ShutdownNeverBlocks ==
  (cpc = "stop_join" /\ ~inStart) => ENABLED (StopJoin \/ \E t \in Threads : WorkerRuns(t))

\* a worker's pickup step (lines 95-96): it leaves "brk" with the queue running
Pickup(t) == wpc[t] = "brk" /\ wpc'[t] \in {"while", "infer"}

\* a pushFrame call completes in this step
Pushes == nPush' = nPush + 1

\* C2: pushFrame adds 1 to the dropped counter exactly when a pending input was
\* still flagged (so two pushes with no pickup in between add exactly 1, at the
\* second), leaves its frame flagged in the input slot, and the flag stays set
\* until a worker picks the frame up (or start() resets it), so the next pickup
\* takes the last pushed frame and nothing else; a worker that holds inputMutex_
\* is never blocked or inferring, so pushFrame never waits for the worker.
C2_PushDropsPending ==
  /\ [][Pushes => /\ framesDropped_' = framesDropped_ + (IF hasNewInput_ THEN 1 ELSE 0)
                  /\ hasNewInput_'
                  /\ inputBuffer_' = lastPushed']_vars
  /\ [][(hasNewInput_ /\ ~hasNewInput_') =>
          (cpc = "start_body" \/ \E t \in Threads : Pickup(t))]_vars
  /\ [][\A t \in Threads : Pickup(t) =>
          /\ hasNewInput_
          /\ localInput'[t] = lastPushed]_vars
  /\ [](\A t \in Threads : inputMutex_ = HeldBy(t) =>
          /\ wpc[t] \in {"pred", "block", "brk"}
          /\ ENABLED WorkerRuns(t))

\* two pushes without a pickup dropped one frame, and the worker then took the
\* second frame
C2_Witness ==
  \E t \in Threads :
    /\ nPush = 2 /\ framesDropped_ = 1
    /\ lastPushed = <<2>>
    /\ wpc[t] = "infer" /\ localInput[t] = <<2>>

Range(seq) == {seq[i] : i \in DOMAIN seq}

\* a getLatestMask call returns true in this step / returns false and is no stutter
GetTrue == Len(delivered') = Len(delivered) + 1
GetFalse == lastOp' # lastOp /\ lastOp'[1] = "get_false"

\* a worker publishes in this step
Publishes == Len(published') = Len(published) + 1

\* C3: getLatestMask returns true only for a result published since its last
\* true return: the flag it needs is raised only by a publication and is down
\* after every true return, the mask it returns is the latest publication and
\* was not returned before; a call that returns false leaves the caller's Mat
\* and the queue as they were; and it never waits for the worker, which holds
\* outputMutex_ only for the publish step.
C3_GetOnlyOncePerResult ==
  /\ [][GetTrue => /\ hasOutput_ /\ ~hasOutput_'
                   /\ callerMask' = published[Len(published)]
                   /\ callerMask' \notin Range(delivered)]_vars
  /\ [][(~hasOutput_ /\ hasOutput_') => Publishes]_vars
  /\ [][GetFalse => /\ callerMask' = lastOp'[2]
                    /\ UNCHANGED <<queueVars, workerVars, delivered>>]_vars
  /\ [](\A t \in Threads : outputMutex_ = HeldBy(t) =>
          wpc[t] = "publish" /\ ENABLED WorkerPublish(t))

\* a call returned true, and the next call, with no publication in between and
\* the same Mat passed again, returned false and left that Mat alone
C3_Witness ==
  /\ Len(published) = 1 /\ delivered = published
  /\ lastOp = <<"get_false", published[1]>>
  /\ callerMask = published[1]

\* C4 as claimed: every result a worker publishes is returned by exactly one
\* getLatestMask call, so, within the first run of the queue, a published
\* result has been returned or still waits, flagged, in the output slot.
C4_EveryResultDelivered ==
  nStart = 1 =>
    \A i \in DOMAIN published :
      \/ published[i] \in Range(delivered)
      \/ hasOutput_ /\ outputBuffer_ = published[i]

\* C4, amended: every result a worker publishes is returned by at most one
\* getLatestMask call that returns true, and what such a call returns is a
\* published result.
C4_DeliveredAtMostOnce ==
  /\ \A i, j \in DOMAIN delivered : i # j => delivered[i] # delivered[j]
  /\ Range(delivered) \subseteq Range(published)

\* two results were published and both were delivered, one call each
C4_Witness ==
  /\ Len(published) = 2
  /\ delivered = published

\* the cycle of thread t ends unpublished in this step: inferenceFunc_ is not
\* set, or it returned false
CycleFails(t) ==
  /\ wpc[t] = "infer" /\ wpc'[t] # "infer"
  /\ nInfer' = nInfer \/ ~lastInfer'[2]

\* C5: a failed inference cycle is not fatal: the step in which the inference
\* function reports failure changes neither the output slot, its flag nor the
\* processed counter and leaves the worker at the head of its loop, alive; only
\* a cycle whose inference returned true goes on to publish.
C5_FailedCycleNotFatal ==
  /\ [][\A t \in Threads : CycleFails(t) =>
          /\ UNCHANGED <<outputBuffer_, hasOutput_, framesProcessed_, published>>
          /\ wpc'[t] = "while"]_vars
  /\ [](\A t \in Threads : wpc[t] \in {"publock", "publish"} => lastInfer = <<t, TRUE>>)

\* the first inference of the one worker failed and published nothing; the
\* frame pushed afterwards was picked up and its inference succeeded
C5_Witness ==
  /\ nStart = 1 /\ nInfer = 2 /\ published = <<>> /\ framesProcessed_ = 0
  /\ wpc[1] = "publock" /\ lastInfer = <<1, TRUE>> /\ localInput[1] = <<2>>

\* C6: start() is safe in any state: when it spawns the worker no other worker
\* is alive and the handle is not joinable (a prior run was stopped and joined),
\* after it returns exactly one worker is alive, both counters are 0, no input
\* is pending and no output is available; two workers never exist at once.
C6_StartLeavesOneWorker ==
  /\ [](Cardinality(LiveWorkers) <= 1)
  /\ []((lastOp = <<"start">> /\ cpc = "idle") =>
          /\ running_
          /\ workerThread_ # <<>> /\ LiveWorkers = {workerThread_[1]}
          /\ framesProcessed_ = 0 /\ framesDropped_ = 0
          /\ ~hasNewInput_ /\ ~hasOutput_)
  /\ [][nStart' = nStart + 1 => LiveWorkers = {} /\ workerThread_ = <<>>]_vars

\* start() was called on a queue whose first run had published a result: the
\* first worker has exited, the second is alive, the counters are back at 0
C6_Witness ==
  /\ lastOp = <<"start">> /\ cpc = "idle" /\ nStart = 2
  /\ published # <<>>
  /\ wpc[1] = "exited" /\ Live(2) /\ framesProcessed_ = 0

\* the client calls stop() in this step (a repeated no-op call changes nothing
\* at all and is a stuttering step)
StopCalled ==
  /\ cpc = "idle"
  /\ \/ lastOp' = <<"stop_noop">> /\ lastOp' # lastOp
     \/ cpc' = "stop_notify" /\ ~inStart'

\* C7: stop() on a queue that is not running returns at once: it does not
\* notify, join or wait and changes no field of the queue, no worker and no
\* counter; after stop() has returned the queue is not running, so any number
\* of further stop() calls are such no-ops.
C7_StopWhenStoppedIsNoop ==
  /\ [][(StopCalled /\ ~running_) =>
          /\ cpc' = "idle"
          /\ UNCHANGED <<queueVars, workerVars, callerMask>>]_vars
  /\ []((cpc = "idle" /\ lastOp[1] \in {"stop", "stop_noop"}) =>
          ~running_ /\ LiveWorkers = {})

\* stop() was called on a queue already stopped after a run that processed a
\* frame: a no-op, the counter still shows the frame
C7_Witness ==
  /\ lastOp = <<"stop_noop">> /\ nStart = 1 /\ wpc[1] = "exited"
  /\ framesProcessed_ = 1 /\ ~running_

\* the last createOrtSession call got past its two validations
Built == build.rc \in {"SUCCESS", "STARTUP", "INVALID_INPUT_OUTPUT"}
FirstAttemptFailed == ~(build.in.cudaOk /\ build.in.sessionOk)
RetryFailed == ~(build.in.cudaRetryOk /\ build.in.sessionRetryOk)

\* C8: the fallback rule. In TensorRT mode a failed first attempt is followed by
\* one retry whose provider chain is CUDA alone, and STARTUP is returned only if
\* the retry fails too; in CUDA mode a failed attempt returns STARTUP with no
\* retry; no call retries after a successful attempt; so the session is
\* constructed at most twice in TensorRT mode and at most once in CUDA mode.
C8_FallbackRule ==
  Built =>
    /\ build.retried <=> (build.in.useGPU = "tensorrt" /\ FirstAttemptFailed)
    /\ build.retried /\ build.in.cudaRetryOk =>
         /\ Len(build.attempts) >= 1
         /\ build.attempts[Len(build.attempts)] = <<"CUDA">>
    /\ build.retried /\ ~RetryFailed =>
         /\ build.rc # "STARTUP"
         /\ tf.session = <<nBuild, <<"CUDA">>>>
    /\ build.rc = "STARTUP" <=>
         (FirstAttemptFailed /\ (build.in.useGPU = "cuda" \/ RetryFailed))
    /\ Len(build.attempts) <= (IF build.in.useGPU = "tensorrt" THEN 2 ELSE 1)

\* TensorRT mode: the first construction threw, the retry with CUDA alone built
\* the session
C8_Witness ==
  /\ build.rc = "SUCCESS" /\ build.retried
  /\ Len(build.attempts) = 2
  /\ tf.session = <<nBuild, <<"CUDA">>>>

\* the TensorRT configuration threw in the last call, and the CUDA provider and
\* the session construction of the first attempt succeeded
TrtThrewCudaBuilt ==
  /\ Built /\ build.in.useGPU = "tensorrt" /\ build.in.trtThrows # "none"
  /\ build.in.cudaOk /\ build.in.sessionOk

\* every chain the session construction was attempted with has CUDA in it
CudaInEveryChain ==
  \A i \in DOMAIN build.attempts : "CUDA" \in Range(build.attempts[i])

\* C9 as claimed: when configuring TensorRT throws at any step and the CUDA
\* provider and the session construction succeed, the build returns success
\* with a session built on CUDA alone; in TensorRT mode every chain
\* construction is attempted with contains CUDA.
C9_TrtConfigFailureSucceeds ==
  /\ TrtThrewCudaBuilt =>
       /\ build.rc = "SUCCESS"
       /\ tf.session = <<nBuild, <<"CUDA">>>>
  /\ CudaInEveryChain

\* C9, amended: when configuring TensorRT throws at any step and the CUDA
\* provider, the session construction and the descriptor's shape derivation
\* succeed, the build returns success with a session built on CUDA alone (with
\* the shape derivation failing there is the same session and the result is
\* INVALID_INPUT_OUTPUT); the throw is absorbed without a retry, CUDA is still
\* configured, and in TensorRT mode every chain construction is attempted with
\* contains CUDA.
C9_TrtConfigFailureAbsorbed ==
  /\ TrtThrewCudaBuilt =>
       /\ tf.session = <<nBuild, <<"CUDA">>>>
       /\ build.attempts = <<<<"CUDA">>>>
       /\ ~build.retried
       /\ "cuda" \in Range(build.configured)
       /\ build.configured[Len(build.configured) - 1] = build.in.trtThrows
       /\ build.rc = (IF build.in.shapesOk THEN "SUCCESS" ELSE "INVALID_INPUT_OUTPUT")
  /\ CudaInEveryChain

\* updating the TensorRT options threw, and the build succeeded on CUDA alone
C9_Witness ==
  /\ TrtThrewCudaBuilt /\ build.in.trtThrows = "update"
  /\ build.rc = "SUCCESS"
  /\ tf.session = <<nBuild, <<"CUDA">>>>

\* a createOrtSession call happens in this step
Builds == nBuild' = nBuild + 1

\* C10: the build validates before it touches anything: without a model object
\* it returns INVALID_MODEL (whether or not the file resolves), with one but
\* with no resolvable model file FILE_NOT_FOUND; in both cases nothing is
\* configured, no construction is attempted, no cache directory is created, and
\* session, path, names, shapes and buffers stay as they were.
C10_ValidatesFirst ==
  [][Builds =>
       /\ ~build'.in.model => build'.rc = "INVALID_MODEL"
       /\ (build'.in.model /\ ~build'.in.file) => build'.rc = "FILE_NOT_FOUND"
       /\ (build'.in.model /\ build'.in.file) =>
            build'.rc \notin {"INVALID_MODEL", "FILE_NOT_FOUND"}
       /\ build'.rc \in {"INVALID_MODEL", "FILE_NOT_FOUND"} =>
            /\ tf' = tf /\ trtCacheDir' = trtCacheDir
            /\ build'.configured = <<>> /\ build'.attempts = <<>>]_vars

\* after a successful build, a second call whose model file does not resolve
\* returned FILE_NOT_FOUND and the first build's session is still there, whole
C10_Witness ==
  /\ nBuild = 2 /\ build.rc = "FILE_NOT_FOUND"
  /\ tf.session # <<>> /\ tf.session[1] = 1
  /\ tf.modelFilepath = <<1>> /\ tf.tensorBuffers = <<1>>

\* the last createOrtSession call constructed a session and went on to lines 148-176
Resolved == shapeRc \in {"SUCCESS", "INVALID_INPUT_OUTPUT"}

\* C11: when the build returns success, every resolved input and output shape
\* has first dimension 1 and only positive dimensions; a build whose resolved
\* shapes are not all so (a dynamic dimension the descriptor left at -1)
\* returns INVALID_INPUT_OUTPUT and allocates no tensor buffers.
C11_SuccessMeansConsistentShapes ==
  /\ shapeRc = "SUCCESS" => AllConsistent(inputDims) /\ AllConsistent(outputDims)
  /\ (Resolved /\ ~(AllConsistent(inputDims) /\ AllConsistent(outputDims))) =>
       /\ shapeRc = "INVALID_INPUT_OUTPUT"
       /\ nResolve = 1 => inputTensorValues = NoVec /\ outputTensorValues = NoVec

\* a session was built for the recurrent descriptor
RvmResolved == model = "RVM" /\ Resolved

\* C12: for the recurrent descriptor the derivation yields six input shapes and
\* five output shapes, of which exactly four each (r1i..r4i at inputs 1..4,
\* r1o..r4o at outputs 1..4) are recurrent states; the height and width of
\* state level i are i successive applications of x -> (x + 1) / 2 to
\* floor(H * 0.25) and floor(W * 0.25), whatever the graph declared; the input
\* channels are 16, 20, 40, 64; the image input and the primary output (pha)
\* have the working resolution H x W.
C12_RecurrentShapes ==
  RvmResolved =>
    LET half(x) == (x + 1) \div 2
        h0 == INPUT_HEIGHT \div 4
        w0 == INPUT_WIDTH \div 4
        hs == <<half(h0), half(half(h0)), half(half(half(h0))),
                half(half(half(half(h0))))>>
        ws == <<half(w0), half(half(w0)), half(half(half(w0))),
                half(half(half(half(w0))))>>
        channels == <<16, 20, 40, 64>>
        stateIn == <<"r1i", "r2i", "r3i", "r4i">>
        stateOut == <<"r1o", "r2o", "r3o", "r4o">>
    IN /\ {i \in DOMAIN inputNames : \E k \in 1..4 : inputNames[i] = stateIn[k]} = 1..4
       /\ {i \in DOMAIN outputNames : \E k \in 1..4 : outputNames[i] = stateOut[k]} = 1..4
       /\ DOMAIN inputDims = DOMAIN inputNames /\ DOMAIN outputDims = DOMAIN outputNames
       /\ \A i \in 1..4 :
            /\ inputNames[i] = stateIn[i] /\ outputNames[i] = stateOut[i]
            /\ inputDims[i][2] = hs[i] /\ inputDims[i][3] = ws[i]
            /\ outputDims[i][2] = hs[i] /\ outputDims[i][3] = ws[i]
            /\ inputDims[i][1] = channels[i]
       /\ inputNames[0] = "src" /\ outputNames[0] = "pha"
       /\ inputDims[0][2] = INPUT_HEIGHT /\ inputDims[0][3] = INPUT_WIDTH
       /\ outputDims[0][2] = INPUT_HEIGHT /\ outputDims[0][3] = INPUT_WIDTH

\* the graph declared every spatial dimension dynamic, and the derivation set
\* the four levels to 135 x 240, 68 x 120, 34 x 60 and 17 x 30
C12_Witness ==
  /\ RvmResolved
  /\ session[1].inputs[1][2] = -1 /\ session[1].outputs[5][3] = -1
  /\ inputDims[1][2] = 135 /\ inputDims[1][3] = 240
  /\ inputDims[2][2] = 68 /\ outputDims[3][2] = 34
  /\ outputDims[4][2] = 17 /\ outputDims[4][3] = 30

\* the names of the recurrent state tensors, level by level
RecurrentInputs == <<"r1i", "r2i", "r3i", "r4i">>
RecurrentOutputs == <<"r1o", "r2o", "r3o", "r4o">>

\* the index at which a vector of names holds the given name
IndexOf(names, name) == CHOOSE i \in DOMAIN names : names[i] = name

\* the carry of the running cycle is done / runNetworkInference of it is done
Carried == \E k \in DOMAIN stepLog : stepLog[k] = "assignOutputToInput"
Inferred == \E k \in DOMAIN stepLog : stepLog[k] = "runNetworkInference"

\* the carry happens in this step
Carries == ipc = "assignOutputToInput" /\ ipc' # ipc

\* C13: the recurrent-state round trip. Once the carry of a cycle is done (and
\* so after the cycle has completed), the input buffer named r<k>i equals, in
\* length and contents, the output buffer named r<k>o, which holds what this
\* cycle's inference wrote; the inference of the next cycle reads exactly what
\* the previous cycle wrote there; the carry writes no output buffer and neither
\* the image input nor the ratio input; for a descriptor without recurrent
\* state it writes no buffer at all.
C13_RecurrentRoundTrip ==
  /\ []((model = "RVM" /\ nCycle >= 1 /\ Carried) =>
         \A k \in 1..4 :
           LET i == IndexOf(inputNames, RecurrentInputs[k])
               j == IndexOf(outputNames, RecurrentOutputs[k])
           IN /\ inputTensorValues[i] = outputTensorValues[j]
              /\ inputTensorValues[i].data = <<"out", nCall, j>>)
  /\ []((model = "RVM" /\ nCycle >= 2 /\ Inferred) =>
         \A k \in 1..4 :
           LET i == IndexOf(inputNames, RecurrentInputs[k])
               j == IndexOf(outputNames, RecurrentOutputs[k])
           IN inferRead[i] = [len |-> outputTensorValues[j].len,
                              data |-> <<"out", nCall - 1, j>>])
  /\ [][Carries =>
         /\ outputTensorValues' = outputTensorValues
         /\ inputTensorValues'[IndexOf(inputNames, inputNames[0])] = inputTensorValues[0]
         /\ model = "RVM" =>
              LET r == IndexOf(inputNames, "downsample_ratio")
              IN inputTensorValues'[r] = inputTensorValues[r]
         /\ model # "RVM" => inputTensorValues' = inputTensorValues]_vars

\* two cycles of the recurrent descriptor have completed: the second inference
\* read what the first wrote, and the state inputs now hold what the second wrote
C13_Witness ==
  /\ model = "RVM" /\ nCycle = 2 /\ ipc = "idle" /\ inferRc = TRUE
  /\ inferRead[1].data = <<"out", 1, 1>> /\ inferRead[4].data = <<"out", 1, 4>>
  /\ inputTensorValues[4].data = <<"out", 2, 4>>
  /\ inputTensorValues[0].data = <<"frame", 2>>

\* a detectGpu call happens in this step
Detects == nDetect' = nDetect + 1

\* the order of the classes, of the buffering depths and of the precision tiers
ClassRank(architecture) ==
  CASE architecture = "UNKNOWN" -> 0 [] architecture = "TURING" -> 1
    [] architecture = "AMPERE" -> 2 [] architecture = "ADA_LOVELACE" -> 3
DepthRank(buffering) == IF buffering = "TRIPLE" THEN 3 ELSE 2
PrecisionRank(precision) == IF precision = "FP16" THEN 1 ELSE 0

\* the capabilities a device can report
Capabilities == (0..MaxMajor) \X (0..MaxMinor)

\* what a successful detection of a device of capability c leaves in a GpuInfo
DetectedFor(c) ==
  detectGpu(NoGpuInfo, [countErr |-> "cudaSuccess", deviceCount |-> 1,
                        propsErr |-> "cudaSuccess", name |-> "NVIDIA GPU",
                        major |-> c[1], minor |-> c[2],
                        totalGlobalMem |-> 1073741825]).info

C15_DefaultsAsDocumented ==
  (detect # <<>> /\ detect[1].rc) =>
    /\ info.architecture \in {"AMPERE", "ADA_LOVELACE"} =>
         info.defaultBuffering = "TRIPLE" /\ info.defaultPrecision = "FP16"
    /\ info.architecture = "TURING" =>
         info.defaultBuffering = "DOUBLE" /\ info.defaultPrecision = "FP32"

\* the fields of the handle that some build has written, and the builds that
\* wrote them
HandleFields ==
  {tf.session, tf.modelFilepath, tf.inputNames, tf.outputNames, tf.inputDims,
   tf.outputDims, tf.tensorBuffers}
HandleBuilds == {field[1] : field \in HandleFields \ {<<>>}}

\* C16: rebuilding never leaves a partially mutated handle: after any return of
\* createOrtSession, with success or with any error, the session, the model
\* file path, the names, the shapes and the tensor buffers that are set were
\* all written by one and the same build.
C16_NoPartialMutation == Cardinality(HandleBuilds) <= 1

\* BufferingMode, gpu-info.h:14-17
Modes == {"DOUBLE", "TRIPLE"}

\* everything but the buffering mode: the one stored in the queue and the one
\* a start() call in progress was given
ModeBlind ==
  <<inferenceFunc_, workerThread_, running_, inputBuffer_, inputMutex_, hasNewInput_,
    outputBuffer_, outputMutex_, hasOutput_, framesProcessed_, framesDropped_,
    workerVars, cpc, inStart, startArgs[1], callerMask, histVars>>

\* the same state of the queue with other buffering modes
InModes(stored, given) ==
  /\ bufferingMode_' = stored
  /\ startArgs' = <<startArgs[1], given>>
  /\ UNCHANGED <<inferenceFunc_, workerThread_, running_, inputBuffer_, inputMutex_,
                 hasNewInput_, outputBuffer_, outputMutex_, hasOutput_, framesProcessed_,
                 framesDropped_, workerVars, cpc, inStart, callerMask, histVars,
                 sessionVars, inferVars, gpuVars>>

\* the queue can take a step that ends in the given state, modes aside
CanStepTo(blind) == ENABLED (Next /\ ModeBlind' = blind)

\* C17: the buffering mode does not change what the queue does. Whatever step
\* the queue (client or worker) takes from a state, a queue that is in the same
\* state but for its buffering mode can take a step to the same state but for
\* the buffering mode: slots, flags, counters, positions and return values are
\* the same. So two queues started with DOUBLE and with TRIPLE go through the
\* same states under the same calls and interleaving; the mode is only stored
\* by start(), and the slots are one input Mat and one output Mat in any mode.
C17_ModeChangesNothing ==
  /\ [][\A stored \in Modes, given \in Modes :
          \E blind \in {ModeBlind'} :
            ENABLED (InModes(stored, given) /\ CanStepTo(blind)')]_vars
  /\ [][bufferingMode_' # bufferingMode_ =>
          cpc = "start_body" /\ bufferingMode_' = startArgs[2]]_vars

\* a queue started with TRIPLE dropped one of two frames and delivered the
\* mask of the second
C17_Witness ==
  /\ bufferingMode_ = "TRIPLE" /\ nStart = 1
  /\ framesDropped_ = 1 /\ framesProcessed_ = 1
  /\ delivered = <<<<2, 1>>>>

\* thread t is past the wait of line 87 with shutdown signalled, and goes on
WakesOnShutdown(t) == wpc[t] = "brk" /\ ~running_ /\ wpc'[t] # "brk"

\* C18 as claimed: a worker that wakes with shutdown signalled exits only if no
\* input is pending; if one is flagged, it takes it (swap, the flag cleared) and
\* goes on to run the inference function on it.
C18_PendingInputTakenOnShutdown ==
  [][\A t \in Threads : WakesOnShutdown(t) =>
       IF hasNewInput_
         THEN /\ localInput'[t] = inputBuffer_ /\ ~hasNewInput_'
              /\ wpc'[t] = (IF inputBuffer_ = EmptyMat THEN "while" ELSE "infer")
         ELSE wpc'[t] = "exited"]_vars

\* C18, amended: a worker that wakes with shutdown signalled exits, whether or
\* not an input is pending: it neither swaps nor clears the flag nor calls the
\* inference function, so a pending input stays flagged in the input slot,
\* unprocessed and not counted as dropped; a worker leaves its loop only with
\* shutdown signalled, and a thread that has left it does nothing more.
C18_ExitsOnShutdownWhateverIsPending ==
  /\ [][\A t \in Threads : WakesOnShutdown(t) =>
          /\ wpc'[t] = "exited"
          /\ UNCHANGED <<inputBuffer_, hasNewInput_, nInfer, framesDropped_,
                         framesProcessed_, outputBuffer_, hasOutput_>>]_vars
  /\ [][\A t \in Threads :
          /\ (wpc[t] # "exited" /\ wpc'[t] = "exited") => ~running_
          /\ wpc[t] = "exited" => wpc'[t] = "exited"]_vars

\* stop() waits in join(); the worker is past its wait with shutdown signalled
\* and the frame pushed before stop() still flagged in the input slot
C18_Witness ==
  /\ cpc = "stop_join" /\ ~inStart /\ nStart = 1
  /\ wpc[1] = "brk" /\ ~running_
  /\ hasNewInput_ /\ inputBuffer_ = <<1>> /\ nInfer = 0

\* some worker is inside the inference function
Inferring == \E t \in Threads : wpc[t] = "infer"

\* C19: while the inference function runs, the worker holds neither
\* inputMutex_ nor outputMutex_, and it never holds both; so while an inference
\* is in progress both are free and pushFrame and getLatestMask run to
\* completion; a live worker that is not in the wait of line 87 always has a
\* step to take, that is, it blocks nowhere else.
C19_NoMutexDuringInference ==
  /\ \A t \in Threads :
       /\ wpc[t] = "infer" => inputMutex_ # HeldBy(t) /\ outputMutex_ # HeldBy(t)
       /\ ~(inputMutex_ = HeldBy(t) /\ outputMutex_ = HeldBy(t))
       /\ (Live(t) /\ wpc[t] # "waiting") => ENABLED WorkerRuns(t)
  /\ Inferring => inputMutex_ = Free /\ outputMutex_ = Free
  /\ (Inferring /\ cpc = "idle") =>
       /\ nPush < MaxPush => \A frame \in NewFrames : ENABLED PushFrame(frame)
       /\ \A mask \in CallerMats : ENABLED GetLatestMask(mask)

\* while the worker was inferring on frame 1, a second frame was pushed and a
\* getLatestMask call then returned, and the inference is still in progress
C19_Witness ==
  /\ wpc[1] = "infer" /\ localInput[1] = <<1>>
  /\ inputBuffer_ = <<2>> /\ hasNewInput_ /\ framesDropped_ = 0
  /\ lastOp[1] = "get_false"

\* the six steps of a cycle, in the order the claim gives them
StepOrder ==
  <<"preprocess", "setExtraTensorInputs", "runNetworkInference", "getNetworkOutput",
    "assignOutputToInput", "postprocessOutput">>

\* position of a step in the log of the current cycle, 0 if it has not run
RanAt(step) ==
  IF \E k \in DOMAIN stepLog : stepLog[k] = step
    THEN CHOOSE k \in DOMAIN stepLog : stepLog[k] = step
    ELSE 0

\* the last call of runFilterModelInference has returned rc
Returned(rc) == ipc = "idle" /\ nCall > 0 /\ inferRc = rc

\* C20: the steps of one cycle run in the order preprocess, setExtraTensorInputs,
\* runNetworkInference, getNetworkOutput, assignOutputToInput, postprocessOutput,
\* each once; assignOutputToInput never runs before the getNetworkOutput or the
\* runNetworkInference of its cycle; a call that returns true has run all six;
\* a call rejected at lines 181-186 runs no step and changes no tensor buffer.
C20_FixedStepOrder ==
  /\ [](/\ \A k \in DOMAIN stepLog : k <= Len(StepOrder) => stepLog[k] = StepOrder[k]
        /\ \A k, j \in DOMAIN stepLog : stepLog[k] = stepLog[j] => k = j
        /\ RanAt("assignOutputToInput") > 0 =>
             /\ RanAt("getNetworkOutput") \in 1..(RanAt("assignOutputToInput") - 1)
             /\ RanAt("runNetworkInference") \in 1..(RanAt("getNetworkOutput") - 1)
        /\ Returned(TRUE) => \A i \in DOMAIN StepOrder : RanAt(StepOrder[i]) = i
        /\ Returned(FALSE) => stepLog = <<>>
        /\ (ipc # "idle" /\ Len(stepLog) < Len(StepOrder)) =>
             ipc = StepOrder[Len(stepLog) + 1])
  /\ [][(nCall' # nCall /\ (session = <<>> \/ model = "null")) =>
          /\ Returned(FALSE)' /\ stepLog' = <<>>
          /\ UNCHANGED <<inputTensorValues, outputTensorValues, outputImage, output>>]_vars
  /\ [][stepLog' # stepLog =>
          \/ stepLog' = <<>> /\ nCall' = nCall + 1
          \/ Len(stepLog') = Len(stepLog) + 1 /\ nCall' = nCall]_vars

\* a first call was rejected for want of a session, and after the session was
\* built the second call ran a whole cycle of the recurrent descriptor
C20_Witness ==
  /\ model = "RVM" /\ nCall = 2 /\ nCycle = 1 /\ Returned(TRUE)
  /\ Len(stepLog) = 7 /\ stepLog[5] = "assignOutputToInput"
  /\ inputTensorValues[1].data = <<"out", 2, 1>>

\* the frame inference call number c works on: the c-th Mat passed to the
\* inference function, or the one the worker is passing right now
FrameOf(c) ==
  IF c <= Len(inferred) THEN inferred[c]
  ELSE localInput[CHOOSE t \in Threads : wpc[t] = "infer"]

\* C21: assignOutputToInput runs exactly once per completed inference, whatever
\* the queue does with the mask: when the inference function returns true to
\* the worker this call has carried, when it returns false it has not, and no
\* call carries twice; the recurrent inputs hold the recurrent outputs of the
\* last call that carried, also after its mask was overwritten by a newer one
\* or never fetched; and no call carries for a frame that pushFrame overwrote
\* before the worker picked it up.
C21_CarryOncePerInference ==
  /\ [](/\ \A i, j \in DOMAIN carried : i < j => carried[i] < carried[j]
        /\ \A k \in DOMAIN carried :
             carried[k] \in 1..nCall /\ FrameOf(carried[k]) \notin overwritten
        /\ (model = "RVM" /\ carried # <<>>) =>
             \A i \in 1..4 :
               inputTensorValues[i].data = <<"out", carried[Len(carried)], i>>)
  /\ [][nInfer' # nInfer =>
          IF lastInfer'[2]
            THEN carried' # <<>> /\ carried'[Len(carried')] = nInfer'
            ELSE \A k \in DOMAIN carried' : carried'[k] # nInfer']_vars

\* two inferences of the recurrent descriptor completed and carried; the mask of
\* the first was overwritten by the second without ever being fetched, and the
\* second has not been fetched either
C21_Witness ==
  /\ model = "RVM" /\ carried = <<1, 2>>
  /\ Len(published) = 2 /\ delivered = <<>>
  /\ outputBuffer_ = <<2, 2>> /\ hasOutput_

\* the input slot holds a frame flagged new: 1 if so, else 0
Pending == IF hasNewInput_ THEN 1 ELSE 0

\* workers between the return of a successful inference call (line 107) and
\* the end of its publication (line 112)
Publishing == {t \in Threads : wpc[t] \in {"publock", "publish"}}

\* C22 as stated: while the queue is running, pushFrame calls = framesDropped
\* + frames taken from the input slot + (1 if an input is flagged pending);
\* framesProcessed = successful inference calls = publications <= frames
\* taken; getLatestMask calls that returned true <= framesProcessed.
C22_CountersAgree ==
  running_ =>
    /\ run.pushes = framesDropped_ + run.taken + Pending
    /\ framesProcessed_ = run.succeeded
    /\ run.succeeded = run.published
    /\ run.published <= run.taken
    /\ run.fetched <= framesProcessed_

\* C22 amended: the same, except that the successful inference calls are
\* framesProcessed plus the one call whose result the worker is still
\* publishing, if any.
C22_CountersAgreeUpToPublication ==
  running_ =>
    /\ run.pushes = framesDropped_ + run.taken + Pending
    /\ framesProcessed_ = run.published
    /\ run.succeeded = framesProcessed_ + Cardinality(Publishing)
    /\ Cardinality(Publishing) <= 1
    /\ run.succeeded <= run.taken
    /\ run.fetched <= framesProcessed_

\* two frames were pushed, the worker took the first and its inference has
\* returned true but is not published yet, the second is pending
C22_Witness ==
  /\ running_ /\ run.pushes = 2 /\ run.taken = 1 /\ hasNewInput_ /\ framesDropped_ = 0
  /\ wpc[1] = "publock" /\ run.succeeded = 1 /\ framesProcessed_ = 0

\* C23: the worker never passes the same pushed frame to the inference function
\* twice: the frames passed are in push order without repetition, and what a
\* pickup swaps out of the input slot is the frame of the latest pushFrame,
\* flagged new, never the old buffer an earlier pickup swapped back; and the
\* masks getLatestMask returns are in push order: none derives from a frame
\* pushed earlier than the frame of a mask returned before.
C23_NoFrameTwiceMasksInOrder ==
  /\ [](/\ \A i, j \in DOMAIN inferred : i < j => inferred[i][1] < inferred[j][1]
        /\ \A i, j \in DOMAIN delivered : i < j => delivered[i][1] <= delivered[j][1]
        /\ \A t \in Threads :
             wpc[t] = "infer" => \A k \in DOMAIN inferred : inferred[k] # localInput[t])
  /\ [][run'.taken = run.taken + 1 =>
          /\ hasNewInput_ /\ inputBuffer_ = lastPushed
          /\ \A k \in DOMAIN inferred : inferred[k] # inputBuffer_]_vars

\* both frames went through inference once and both masks were returned in
\* order; the buffer of frame 1, swapped back by the second pickup, lies in the
\* input slot and the worker waits for a new push
C23_Witness ==
  /\ inferred = <<(<<1>>), (<<2>>)>>
  /\ delivered = <<(<<1, 1>>), (<<2, 2>>)>>
  /\ inputBuffer_ = <<1>> /\ ~hasNewInput_ /\ wpc[1] = "waiting"

\* frame number f lies in the input slot flagged new, in a running queue that
\* has an inference function
PendingFrame(f) ==
  running_ /\ inferenceFunc_ # "null" /\ hasNewInput_ /\ inputBuffer_ = <<f>>

\* the inference function has returned true for frame f to worker t, with mask c
Succeeded(t, f, c) == wpc[t] = "publock" /\ localOutput[t] = <<f, c>>

\* C24: under weak fairness of the worker, a non-empty frame pending in a
\* running queue is eventually passed to the inference function, unless a later
\* push overwrites it first or the queue is stopped; and the mask of an
\* inference that returned true eventually is the one getLatestMask would return.
C24_PushedFrameGetsInferred ==
  /\ \A f \in 1..MaxPush :
       PendingFrame(f) ~>
         (<<f>> \in Range(inferred) \/ <<f>> \in overwritten \/ ~running_)
  /\ \A t \in Threads, f \in 1..MaxPush, c \in 1..MaxPush :
       Succeeded(t, f, c) ~> (MaskAvailable /\ outputBuffer_ = <<f, c>>)

\* frame 1 was pushed to a running queue, went through inference, and its mask
\* is what getLatestMask would return
C24_Witness ==
  /\ running_ /\ nPush = 1 /\ inferred = <<(<<1>>)>>
  /\ MaskAvailable /\ outputBuffer_ = <<1, 1>>

====
